---------------------------- MODULE Spec2Model ----------------------------
(*************************************************************************)
(* Checkout / order core of the Arelix Developments store.               *)
(*                                                                       *)
(*   - POST /api/checkout        src/src/app/api/checkout/route.ts       *)
(*   - sendOrderEmail            src/src/lib/sendOrderEmail.ts           *)
(*   - hardcoded catalog         src/src/lib/data.ts                     *)
(*   - approveOrder/rejectOrder  src/src/app/admin/orders/actions.ts     *)
(*   - add/update/deleteProduct  src/src/app/admin/products/actions.ts   *)
(*   - CartSidebar               src/unnamed/part_006                    *)
(*   - AdminOrdersPage, OrderTableClient   src/unnamed/part_002          *)
(*   - getDashboardStats         src/src/app/admin/page.tsx              *)
(*   - middleware                src/unnamed/part_004                    *)
(*   - POST /api/admin/seed      src/src/app/api/admin/seed/route.ts     *)
(*   - useCartStore              src/unnamed/part_009                    *)
(*   - CartItemRow               src/src/components/CartItemRow.tsx      *)
(*   - getLiveStoreProducts      src/src/app/layout.tsx                  *)
(*   - ProductGrid               src/unnamed/part_007                    *)
(*   - connectToDatabase         src/src/lib/mongodb.ts                  *)
(*                                                                       *)
(* Representation.  A JavaScript string is a sequence of one-character   *)
(* strings.  Money is counted in cents (9.99 is 999).  A quantity is     *)
(* counted in halves, so that the JSON number 1.5 can be submitted       *)
(* (quantity 3) next to 1 and 2 (quantities 2 and 4); see Whole.         *)
(* A field that is absent from a JSON body is represented by the empty   *)
(* value of its type ("" / [] / 0): the handler tests these fields with  *)
(* `!x`, which does not tell the two apart.                              *)
(*************************************************************************)
EXTENDS Integers, Sequences, FiniteSets, TLC

(*************************************************************************)
(* Bounds of the model                                                   *)
(*************************************************************************)
MaxItems == 2          \* longest item list of a submitted body
MaxRequests == 2       \* intake requests served one after the other
MaxTime == 1           \* milliseconds the clock advances
MaxProducts == 2       \* documents ever inserted into the products collection
MaxCore == 2           \* characters of a typed username besides its filler
MaxCalls == 2          \* approveOrder / rejectOrder invocations that may overlap
MaxListed == 2         \* product cards of the storefront a shopper clicks on
MaxToasts == 3         \* addToCart calls, each of which shows a toast
MaxQuantity == 2       \* largest quantity handed to updateQuantity
MaxDbCalls == 3        \* connectToDatabase invocations
MaxSeeds == 2          \* POST /api/admin/seed invocations that may overlap

(*************************************************************************)
(* Program constants                                                     *)
(*************************************************************************)
UsernameMinLen == 3    \* {3,16} in both username patterns
UsernameMaxLen == 16
UtrLen == 12           \* \d{12}
InputMaxLength == 16   \* maxLength of the username field

(*************************************************************************)
(* Characters and the string functions the code uses                     *)
(*************************************************************************)
LowerSeq == <<"a","b","c","d","e","f","g","h","i","j","k","l","m",
             "n","o","p","q","r","s","t","u","v","w","x","y","z">>
UpperSeq == <<"A","B","C","D","E","F","G","H","I","J","K","L","M",
             "N","O","P","Q","R","S","T","U","V","W","X","Y","Z">>
Lower == {LowerSeq[i] : i \in 1..Len(LowerSeq)}
Upper == {UpperSeq[i] : i \in 1..Len(UpperSeq)}
Digits == {"0","1","2","3","4","5","6","7","8","9"}
\* [a-zA-Z0-9_]
WordChars == Lower \cup Upper \cup Digits \cup {"_"}
\* \s  (the members that can be typed into a one-line field or sent in JSON)
Whitespace == {" ", "\t", "\n"}

RECURSIVE TrimStart(_)
TrimStart(s) ==
    IF s = <<>> THEN s
    ELSE IF Head(s) \in Whitespace THEN TrimStart(Tail(s)) ELSE s

RECURSIVE TrimEnd(_)
TrimEnd(s) ==
    IF s = <<>> THEN s
    ELSE IF s[Len(s)] \in Whitespace THEN TrimEnd(SubSeq(s, 1, Len(s) - 1)) ELSE s

\* String.prototype.trim
Trim(s) == TrimEnd(TrimStart(s))

\* /^\.?[a-zA-Z0-9_]{3,16}$/.test(u)
ServerUsernameOk(u) ==
    LET rest == IF u # <<>> /\ Head(u) = "." THEN Tail(u) ELSE u
    IN  /\ Len(rest) >= UsernameMinLen
        /\ Len(rest) <= UsernameMaxLen
        /\ \A i \in 1..Len(rest) : rest[i] \in WordChars

\* /^\d{12}$/.test(t)
UtrOk(t) == Len(t) = UtrLen /\ \A i \in 1..Len(t) : t[i] \in Digits

\* String.prototype.toLowerCase
ToLowerCase(s) ==
    [i \in 1..Len(s) |->
        IF s[i] \in Upper
        THEN LowerSeq[CHOOSE k \in 1..Len(UpperSeq) : UpperSeq[k] = s[i]]
        ELSE s[i]]

RECURSIVE DropWhileNot(_, _)
\* s without its longest prefix of characters outside `keep`
DropWhileNot(s, keep) ==
    IF s = <<>> \/ Head(s) \in keep THEN s ELSE DropWhileNot(Tail(s), keep)

RECURSIVE Dashed(_)
\* s.replace(/[^a-z0-9]+/g, "-")
Dashed(s) ==
    IF s = <<>> THEN s
    ELSE IF Head(s) \in Lower \cup Digits THEN <<Head(s)>> \o Dashed(Tail(s))
    ELSE <<"-">> \o Dashed(DropWhileNot(s, Lower \cup Digits))

\* s.replace(/(^-|-$)/g, "")
StripDashes(s) ==
    LET t == IF s # <<>> /\ Head(s) = "-" THEN Tail(s) ELSE s
    IN  IF t # <<>> /\ t[Len(t)] = "-" THEN SubSeq(t, 1, Len(t) - 1) ELSE t

\* The id addProduct derives from the name
Slug(name) == StripDashes(Dashed(ToLowerCase(name)))

\* s.replace(/\s/g, "_")
Underscored(s) == [i \in 1..Len(s) |-> IF s[i] \in Whitespace THEN "_" ELSE s[i]]

(*************************************************************************)
(* The hardcoded catalog `products` of lib/data.ts (id, name, price)     *)
(* with the ids and names the file gives, as strings                     *)
(*************************************************************************)
products ==
    << [id |-> <<"r","a","n","k","-","w","a","r","r","i","o","r">>,
        name |-> <<"W","a","r","r","i","o","r"," ","R","a","n","k">>,
        price |-> 499],
       [id |-> <<"r","a","n","k","-","k","n","i","g","h","t">>,
        name |-> <<"K","n","i","g","h","t"," ","R","a","n","k">>,
        price |-> 999],
       [id |-> <<"r","a","n","k","-","k","i","n","g">>,
        name |-> <<"K","i","n","g"," ","R","a","n","k">>,
        price |-> 1999],
       [id |-> <<"r","a","n","k","-","e","m","p","e","r","o","r">>,
        name |-> <<"E","m","p","e","r","o","r"," ","R","a","n","k">>,
        price |-> 3499],
       [id |-> <<"k","i","t","-","s","t","a","r","t","e","r">>,
        name |-> <<"S","t","a","r","t","e","r"," ","K","i","t">>,
        price |-> 299],
       [id |-> <<"k","i","t","-","p","v","p">>,
        name |-> <<"P","v","P"," ","M","a","s","t","e","r"," ","K","i","t">>,
        price |-> 799],
       [id |-> <<"k","i","t","-","b","u","i","l","d","e","r">>,
        name |-> <<"B","u","i","l","d","e","r","'","s"," ","K","i","t">>,
        price |-> 499],
       [id |-> <<"k","e","y","-","c","o","m","m","o","n">>,
        name |-> <<"C","o","m","m","o","n"," ","C","r","a","t","e"," ","K","e","y">>,
        price |-> 149],
       [id |-> <<"k","e","y","-","r","a","r","e">>,
        name |-> <<"R","a","r","e"," ","C","r","a","t","e"," ","K","e","y">>,
        price |-> 349],
       [id |-> <<"k","e","y","-","l","e","g","e","n","d","a","r","y">>,
        name |-> <<"L","e","g","e","n","d","a","r","y"," ","C","r","a","t","e"," ","K","e","y">>,
        price |-> 799],
       [id |-> <<"m","i","s","c","-","c","o","i","n","s">>,
        name |-> <<"5","0","0","0"," ","S","e","r","v","e","r"," ","C","o","i","n","s">>,
        price |-> 499],
       [id |-> <<"m","i","s","c","-","p","e","t">>,
        name |-> <<"C","u","s","t","o","m"," ","P","e","t">>,
        price |-> 699],
       [id |-> <<"m","i","s","c","-","n","i","c","k","n","a","m","e">>,
        name |-> <<"C","u","s","t","o","m"," ","N","i","c","k","n","a","m","e">>,
        price |-> 249] >>

NoProduct == [id |-> <<>>, name |-> <<>>, price |-> 0]

\* products.find((p) => p.id === id): the first match, or undefined
FindProduct(id) ==
    LET hits == {i \in 1..Len(products) : products[i].id = id}
    IN  IF hits = {} THEN NoProduct
        ELSE products[CHOOSE i \in hits : \A j \in hits : i <= j]

(*************************************************************************)
(* Numbers                                                               *)
(*************************************************************************)
\* the JSON number n as a quantity (quantities are counted in halves)
Whole(n) == 2 * n

\* A product price * quantity, and a sum of such products, is counted in
\* half cents.  parseFloat(x.toFixed(2)) rounds it to cents.  A whole number
\* of cents is returned as it is.  A value that lies half a cent between two
\* amounts is not representable in binary floating point, and toFixed rounds
\* the double that stands for it: 4.99 * 1.5 gives 7.49 and 9.99 * 1.5 gives
\* 14.98.  Which neighbour is returned is the choice `up`.
ToFixed2(x, up) ==
    IF x % 2 = 0 THEN x \div 2
    ELSE (x \div 2) + (IF up THEN 1 ELSE 0)

RECURSIVE SumTo(_, _)
\* f[1] + ... + f[n]
SumTo(f, n) == IF n = 0 THEN 0 ELSE SumTo(f, n - 1) + f[n]

(*************************************************************************)
(* POST /api/checkout: validation                                        *)
(*************************************************************************)
NoError == [msg |-> "", id |-> <<>>, status |-> 200]
Err(msg, id, status) == [msg |-> msg, id |-> id, status |-> status]

UsernameRequired == Err("Minecraft username is required.", <<>>, 400)
UsernameInvalid == Err("Invalid username format.", <<>>, 400)
EditionInvalid == Err("Invalid edition. Must be 'java' or 'bedrock'.", <<>>, 400)
UtrRequired == Err("UTR / Transaction ID is required.", <<>>, 400)
UtrInvalid == Err("UTR must be exactly 12 digits.", <<>>, 400)
CartEmpty == Err("Cart is empty.", <<>>, 400)
QuantityInvalid(id) == Err("Invalid quantity for item: ", id, 400)
ProductNotFound(id) == Err("Product not found: ", id, 400)
InternalError ==
    Err("Something went wrong processing your order. Please try again.", <<>>, 500)

\* One pass of the for loop over body.items, up to its return
ItemError(cartItem) ==
    IF cartItem.quantity = 0 \/ cartItem.quantity < Whole(1)
    THEN QuantityInvalid(cartItem.id)
    ELSE IF FindProduct(cartItem.id) = NoProduct
    THEN ProductNotFound(cartItem.id)
    ELSE NoError

\* The for loop returns at the first item that fails
ItemsError(list) ==
    LET bad == {i \in 1..Len(list) : ItemError(list[i]) # NoError}
    IN  IF bad = {} THEN NoError
        ELSE ItemError(list[CHOOSE i \in bad : \A j \in bad : i <= j])

\* CheckoutError with the UTR checks moved before the username checks
CheckoutErrorUtrFirst(b) ==
    IF ~b.parses THEN InternalError
    ELSE IF Trim(b.utrNumber) = <<>> THEN UtrRequired
    ELSE IF ~UtrOk(Trim(b.utrNumber)) THEN UtrInvalid
    ELSE IF Trim(b.minecraftUsername) = <<>> THEN UsernameRequired
    ELSE IF ~ServerUsernameOk(Trim(b.minecraftUsername)) THEN UsernameInvalid
    ELSE IF b.edition \notin {"java", "bedrock"} THEN EditionInvalid
    ELSE IF b.items = <<>> THEN CartEmpty
    ELSE ItemsError(b.items)

\* CheckoutError whose UTR pattern has lost its end anchor: /^\d{12}/
CheckoutErrorOpenPattern(b) ==
    IF ~b.parses THEN InternalError
    ELSE IF Trim(b.minecraftUsername) = <<>> THEN UsernameRequired
    ELSE IF ~ServerUsernameOk(Trim(b.minecraftUsername)) THEN UsernameInvalid
    ELSE IF b.edition \notin {"java", "bedrock"} THEN EditionInvalid
    ELSE IF Trim(b.utrNumber) = <<>> THEN UtrRequired
    ELSE IF ~(Len(Trim(b.utrNumber)) >= UtrLen
              /\ \A i \in 1..UtrLen : Trim(b.utrNumber)[i] \in Digits) THEN UtrInvalid
    ELSE IF b.items = <<>> THEN CartEmpty
    ELSE ItemsError(b.items)

\* Steps 1 to 6 of the handler: the error it returns, or NoError
CheckoutError(b) ==
    IF ~b.parses THEN InternalError
    ELSE IF Trim(b.minecraftUsername) = <<>> THEN UsernameRequired
    ELSE IF ~ServerUsernameOk(Trim(b.minecraftUsername)) THEN UsernameInvalid
    ELSE IF b.edition \notin {"java", "bedrock"} THEN EditionInvalid
    ELSE IF Trim(b.utrNumber) = <<>> THEN UtrRequired
    ELSE IF ~UtrOk(Trim(b.utrNumber)) THEN UtrInvalid
    ELSE IF b.items = <<>> THEN CartEmpty
    ELSE ItemsError(b.items)

\* validatedItems, for a body whose items all passed
ValidatedItems(list, ups) ==
    [i \in 1..Len(list) |->
        LET serverProduct == FindProduct(list[i].id)
        IN  [id |-> serverProduct.id,
             name |-> serverProduct.name,
             price |-> serverProduct.price,
             quantity |-> list[i].quantity,
             lineTotal |-> ToFixed2(serverProduct.price * list[i].quantity, ups[i])]]

\* serverTotal, in half cents
ServerTotal(list) ==
    SumTo([i \in 1..Len(list) |-> FindProduct(list[i].id).price * list[i].quantity],
          Len(list))

\* totalAmount
TotalAmount(list, ups) == ToFixed2(ServerTotal(list), ups[Len(list) + 1])

(*************************************************************************)
(* Inputs                                                                *)
(*************************************************************************)
Steve_123 == <<"S","t","e","v","e","_","1","2","3">>
Usernames ==
    { Steve_123,
      <<".">> \o Steve_123,
      <<"S","t","e","v","e"," ","1","2","3">>,
      <<"a","b">>,
      <<>> }
Editions == {"java", "bedrock", "pocket"}
Utr12 == <<"4","1","2","3","4","5","6","7","8","9","0","1">>
Utrs == { Utr12, SubSeq(Utr12, 1, 11), <<>> }
\* More transaction references: padded with whitespace, with a letter, 13 digits
UtrValues ==
    Utrs \cup { <<" ">> \o Utr12 \o <<"\n">>,
                SubSeq(Utr12, 1, 11) \o <<"a">>,
                Utr12 \o <<"7">>,
                <<" ">> }

\* An item of a request body.  `price` is a price the client adds to the
\* item (0: none); CheckoutRequestItem declares id and quantity only.
RankKnight == <<"r","a","n","k","-","k","n","i","g","h","t">>
KitStarter == <<"k","i","t","-","s","t","a","r","t","e","r">>
RankDragon == <<"r","a","n","k","-","d","r","a","g","o","n">>
CartItems ==
    { [id |-> RankKnight, quantity |-> Whole(2), price |-> 0],
      [id |-> RankKnight, quantity |-> Whole(2), price |-> 1],
      [id |-> KitStarter, quantity |-> Whole(1), price |-> 0],
      [id |-> KitStarter, quantity |-> 3,        price |-> 0],
      [id |-> RankDragon, quantity |-> Whole(1), price |-> 0],
      [id |-> RankDragon, quantity |-> 0,        price |-> 0] }
ItemLists == UNION { [1..n -> CartItems] : n \in 0..MaxItems }

\* A body request.json() cannot parse
Unparsable ==
    [parses |-> FALSE, minecraftUsername |-> <<>>, edition |-> "",
     utrNumber |-> <<>>, items |-> <<>>]
Bodies ==
    { [parses |-> TRUE, minecraftUsername |-> u, edition |-> e,
       utrNumber |-> t, items |-> l] :
        u \in Usernames, e \in Editions, t \in Utrs, l \in ItemLists }
    \cup { Unparsable }

\* The suffix Math.random().toString(36).substring(2, 7).toUpperCase()
Suffixes == {"K3F9A", "ZZ1QX"}

\* The orders the orders collection holds, by _id.  No code of the
\* repository inserts an order; the admin panel reads and updates the ones
\* the database holds.
OrderKeys == {"65f0a1", "65f0a2", "65f0a3"}
\* When the order with _id k was created, and the suffix of its orderId
OrderStamp(k) == IF k = "65f0a1" THEN -2 ELSE IF k = "65f0a2" THEN -1 ELSE 0
OrderSuffix(k) == IF k = "65f0a2" THEN "ZZ1QX" ELSE "K3F9A"
InitialOrder(k) ==
    [orderId |-> <<OrderStamp(k), OrderSuffix(k)>>,
     minecraftUsername |-> Steve_123, edition |-> "java", utrNumber |-> Utr12,
     items |-> << [id |-> RankKnight, name |-> FindProduct(RankKnight).name,
                   price |-> 999, quantity |-> Whole(1), lineTotal |-> 999] >>,
     total |-> 999, status |-> "pending",
     createdAt |-> OrderStamp(k), updatedAt |-> OrderStamp(k)]

(*************************************************************************)
(* State                                                                 *)
(*************************************************************************)
VARIABLES
    pc,        \* where the intake request is: idle, emailing, responded, hung
    body,      \* the body of the request
    order,     \* orderId, username, ..., validatedItems, totalAmount of the handler
    resp,      \* the response the handler returned
    mail,      \* the sendOrderEmail call: none, sending, sent, failed, hung
    served,    \* the requests answered or abandoned before this one
    now,       \* Date.now()
    dbOrders,  \* the orders collection: _id -> document
    ret,       \* what the last approveOrder / rejectOrder call returned
    dbProducts,    \* the products collection: _id -> document
    nextKey,       \* the _id the next inserted product gets
    step,          \* CartSidebar: the checkout step shown
    username,      \* CartSidebar: the raw username input
    usernameError, \* CartSidebar: the validation error text
    edition,       \* CartSidebar: the edition toggle
    items,         \* the cart store: the lines of the cart
    utrNumber,     \* CartSidebar: the UTR field
    utrError,      \* CartSidebar: the validation error text of the UTR field
    isProcessing,  \* CartSidebar: a checkout request is awaited
    fetchBody,     \* CartSidebar: the body of the last fetch("/api/checkout")
    orderResult,   \* CartSidebar: what the success / error step shows
    calls,         \* the approveOrder / rejectOrder invocations, in call order
    orders,        \* AdminOrdersPage: the `orders` prop of OrderTableClient
    filter,        \* OrderTableClient: the filter tab
    loadingId,     \* OrderTableClient: the order whose buttons show a spinner
    adminRequest,  \* the last request to an admin route, and what became of it
    toasts,        \* the cart store: the toasts shown
    toastIdCounter,    \* the cart store's module: the id of the last toast
    timers,        \* the ids whose setTimeout(removeToast, 2500) has not fired
    cached,        \* lib/mongodb: the cache { client, promise }
    connections,   \* the MongoClient.connect calls made, each with its outcome
    dbCalls,       \* the connectToDatabase invocations, in call order
    seeds          \* the POST /api/admin/seed invocations, in call order

intakeVars == <<pc, body, order, resp, mail, served>>
reviewVars == <<dbOrders, ret>>
catalogVars == <<dbProducts, nextKey>>
sidebarVars == <<step, username, usernameError, edition, items>>
payVars == <<utrNumber, utrError, isProcessing, fetchBody, orderResult>>
panelVars == <<orders, filter, loadingId>>
adminVars == <<calls, panelVars, adminRequest>>
storeVars == <<toasts, toastIdCounter, timers>>
mongoVars == <<cached, connections, dbCalls>>
restVars == <<storeVars, mongoVars, seeds>>
vars == <<intakeVars, now, reviewVars, catalogVars, sidebarVars, payVars, adminVars,
          restVars>>
notIntake == <<reviewVars, catalogVars, sidebarVars, payVars, adminVars, restVars>>

NoReturn == [op |-> "", orderId |-> "", success |-> FALSE, error |-> ""]
NoBody == Unparsable
NoOrder ==
    [orderId |-> <<0, "">>, username |-> <<>>, edition |-> "", utrNumber |-> <<>>,
     items |-> <<>>, total |-> 0]
NoResponse ==
    [status |-> 0, success |-> FALSE, error |-> NoError, orderId |-> <<0, "">>,
     minecraftUsername |-> <<>>, edition |-> "", total |-> 0, itemCount |-> 0,
     items |-> <<>>]

\* NextResponse.json({ error }, { status })
ErrorResponse(e) == [NoResponse EXCEPT !.status = e.status, !.error = e]

\* NextResponse.json({ success: true, orderId, ... })
SuccessResponse(o) ==
    [status |-> 200, success |-> TRUE, error |-> NoError, orderId |-> o.orderId,
     minecraftUsername |-> o.username, edition |-> o.edition, total |-> o.total,
     itemCount |-> Len(o.items), items |-> o.items]

\* setOrderResult(null)
NoOrderResult ==
    [orderId |-> <<0, "">>, total |-> 0, username |-> <<>>, error |-> NoError]
\* setLoadingId(null)
NoId == ""
NoRequest == [path |-> <<>>, token |-> "", outcome |-> ""]

\* The payment step of the sidebar before anything is typed
PayInit ==
    /\ utrNumber = <<>>
    /\ utrError = ""
    /\ isProcessing = FALSE
    /\ fetchBody = NoBody
    /\ orderResult = NoOrderResult

\* No admin has called anything or opened the orders page
AdminInit ==
    /\ calls = <<>>
    /\ orders = <<>>
    /\ filter = "all"
    /\ loadingId = NoId
    /\ adminRequest = NoRequest

\* The cart store as created, no connectToDatabase call and no seed call yet
RestInit ==
    /\ toasts = <<>>
    /\ toastIdCounter = 0
    /\ timers = {}
    /\ cached = [client |-> 0, promise |-> 0]
    /\ connections = <<>>
    /\ dbCalls = <<>>
    /\ seeds = <<>>

Init ==
    /\ PayInit
    /\ AdminInit
    /\ RestInit
    /\ pc = "idle"
    /\ body = NoBody
    /\ order = NoOrder
    /\ resp = NoResponse
    /\ mail = "none"
    /\ served = 0
    /\ now = 0
    /\ dbOrders = [k \in OrderKeys |-> InitialOrder(k)]
    /\ ret = NoReturn
    /\ dbProducts = <<>>
    /\ nextKey = 1
    /\ step = "cart"
    /\ username = <<>>
    /\ usernameError = ""
    /\ edition = "java"
    /\ items = <<>>

(*************************************************************************)
(* POST /api/checkout                                                    *)
(*************************************************************************)
\* POST with the notification sent before the item loop has finished
POSTMailBeforeItems(b) ==
    /\ pc = "idle"
    /\ body' = b
    /\ IF CheckoutError(b) # NoError
       THEN /\ pc' = "responded"
            /\ resp' = ErrorResponse(CheckoutError(b))
            /\ order' = NoOrder
            /\ mail' = IF CheckoutError(b) = ItemsError(b.items) THEN "sent" ELSE "none"
       ELSE \E suffix \in Suffixes, ups \in [1..(MaxItems + 1) -> BOOLEAN] :
            /\ order' = [orderId |-> <<now, suffix>>,
                         username |-> Trim(b.minecraftUsername),
                         edition |-> b.edition,
                         utrNumber |-> Trim(b.utrNumber),
                         items |-> ValidatedItems(b.items, ups),
                         total |-> TotalAmount(b.items, ups)]
            /\ mail' = "sending"
            /\ pc' = "emailing"
            /\ resp' = NoResponse
    /\ UNCHANGED <<served, now, restVars, notIntake>>

\* The handler from its start to its first return, or to the await of
\* sendOrderEmail, which has called transporter.sendMail by then.
POST(b) ==
    /\ pc = "idle"
    /\ body' = b
    /\ IF CheckoutError(b) # NoError
       THEN /\ pc' = "responded"
            /\ resp' = ErrorResponse(CheckoutError(b))
            /\ order' = NoOrder
            /\ mail' = "none"
       ELSE \E suffix \in Suffixes, ups \in [1..(MaxItems + 1) -> BOOLEAN] :
            /\ order' = [orderId |-> <<now, suffix>>,
                         username |-> Trim(b.minecraftUsername),
                         edition |-> b.edition,
                         utrNumber |-> Trim(b.utrNumber),
                         items |-> ValidatedItems(b.items, ups),
                         total |-> TotalAmount(b.items, ups)]
            /\ mail' = "sending"
            /\ pc' = "emailing"
            /\ resp' = NoResponse
    /\ UNCHANGED <<served, now, restVars, notIntake>>

\* transporter.sendMail resolves: the handler logs and returns the confirmation
SendMailResolve ==
    /\ pc = "emailing"
    /\ mail' = "sent"
    /\ pc' = "responded"
    /\ resp' = SuccessResponse(order)
    /\ UNCHANGED <<body, order, served, now, restVars, notIntake>>

\* SendMailReject without the inner try/catch: the outer catch answers 500
SendMailRejectAborts ==
    /\ pc = "emailing"
    /\ mail' = "failed"
    /\ pc' = "responded"
    /\ resp' = ErrorResponse(InternalError)
    /\ UNCHANGED <<body, order, served, now, restVars, notIntake>>

\* transporter.sendMail rejects: the inner catch logs, the handler goes on
SendMailReject ==
    /\ pc = "emailing"
    /\ mail' = "failed"
    /\ pc' = "responded"
    /\ resp' = SuccessResponse(order)
    /\ UNCHANGED <<body, order, served, now, restVars, notIntake>>

\* transporter.sendMail never settles (the transport is created without a
\* timeout and the handler awaits it without one): the handler stays at the await
SendMailHang ==
    /\ pc = "emailing"
    /\ mail' = "hung"
    /\ pc' = "hung"
    /\ UNCHANGED <<body, order, resp, served, now, restVars, notIntake>>

\* The next request arrives
NextRequest ==
    /\ pc \in {"responded", "hung"}
    /\ served + 1 < MaxRequests
    /\ served' = served + 1
    /\ pc' = "idle"
    /\ body' = NoBody
    /\ order' = NoOrder
    /\ resp' = NoResponse
    /\ mail' = "none"
    /\ UNCHANGED <<now, restVars, notIntake>>

\* A millisecond passes
Tick ==
    /\ now < MaxTime
    /\ now' = now + 1
    /\ UNCHANGED <<intakeVars, notIntake>>

\* A request arrives with some body
Receive == pc = "idle" /\ \E b \in Bodies : POST(b)

Next ==
    \/ Receive
    \/ SendMailResolve
    \/ SendMailReject
    \/ SendMailHang
    \/ NextRequest
    \/ Tick

Spec == Init /\ [][Next]_vars

\* The handler runs on when it can, and a sendMail call is resolved, rejected
\* or left unsettled by the transport
FairSpec ==
    /\ Spec
    /\ WF_vars(Receive)
    /\ WF_vars(SendMailResolve \/ SendMailReject \/ SendMailHang)

(*************************************************************************)
(* Claims about intake                                                   *)
(*************************************************************************)
Succeeded == pc = "responded" /\ resp.success
Failed == pc = "responded" /\ ~resp.success

\* C1: the total of a successful intake is the sum over the submitted items
\* of catalog price * quantity, and its line items carry the catalog price
\* whatever price the client put on the item.
C1_TotalIsCatalogSum ==
    Succeeded =>
        /\ 2 * resp.total = ServerTotal(body.items)
        /\ Len(resp.items) = Len(body.items)
        /\ \A i \in 1..Len(body.items) :
            /\ resp.items[i].id = body.items[i].id
            /\ resp.items[i].quantity = body.items[i].quantity
            /\ resp.items[i].price = FindProduct(body.items[i].id).price

\* C2: a successful intake has inserted exactly one order, pending, that
\* carries the returned orderId.
C2_SuccessInsertsOneOrder ==
    Succeeded =>
        Cardinality({k \in DOMAIN dbOrders :
                        /\ dbOrders[k].orderId = resp.orderId
                        /\ dbOrders[k].status = "pending"}) = 1

\* C4: an intake that fails leaves the order store unchanged and dispatches
\* no notification, also when earlier items of the list were valid; the error
\* for a product that does not exist names its id.
C4_FailedIntakeHasNoEffect ==
    /\ [](Failed => mail = "none" /\ order = NoOrder)
    /\ [](Failed /\ resp.error.msg = ProductNotFound(<<>>).msg =>
            /\ \E i \in 1..Len(body.items) : body.items[i].id = resp.error.id
            /\ \A i \in 1..Len(products) : products[i].id # resp.error.id)
    /\ [][pc = "idle" /\ pc' = "responded" /\ ~resp'.success => dbOrders' = dbOrders]_vars

C4_Witness ==
    /\ Failed
    /\ Len(body.items) = 2
    /\ ItemError(body.items[1]) = NoError
    /\ resp.error = ProductNotFound(RankDragon)
    /\ mail = "none"

\* C6: when the notification fails the intake still answers success with the
\* orderId, total and items it had computed, shows no error, and what was
\* recorded for the order stays.
C6_MailFailureKeepsSuccess ==
    /\ [](pc = "responded" /\ mail = "failed" =>
            /\ resp.success
            /\ resp.status = 200
            /\ resp.error = NoError
            /\ resp.orderId = order.orderId
            /\ resp.total = order.total
            /\ resp.items = order.items)
    /\ [][mail = "sending" /\ mail' = "failed" =>
            order' = order /\ dbOrders' = dbOrders]_vars

C6_Witness == pc = "responded" /\ mail = "failed" /\ resp.success /\ resp.total = 1998

\* C7: no notification for an order is attempted while that order is not in
\* the order store.
C7_NotifyAfterCommit ==
    mail # "none" => \E k \in DOMAIN dbOrders : dbOrders[k].orderId = order.orderId

\* C8: every intake call eventually returns a response, whatever the
\* notification dispatch does.
C8_IntakeResponds ==
    \A n \in 0..MaxRequests :
        (pc = "emailing" /\ served = n) ~> (pc = "responded" /\ served = n)

\* C9: the checks apply in the order username, edition, transaction
\* reference, item list, items; the answer carries the error of the first
\* check that fails and a 4xx status.
BadUsername(b) ==
    Trim(b.minecraftUsername) = <<>> \/ ~ServerUsernameOk(Trim(b.minecraftUsername))
BadEdition(b) == b.edition # "java" /\ b.edition # "bedrock"
BadUtr(b) == Trim(b.utrNumber) = <<>> \/ ~UtrOk(Trim(b.utrNumber))
BadItem(it) == it.quantity < Whole(1) \/ \A i \in 1..Len(products) : products[i].id # it.id

IntegerAtLeastOne(q) == q % 2 = 0 /\ q >= 2

C12_QuantityIsPositiveInteger ==
    pc # "idle" /\ body.parses /\ ~BadUsername(body) /\ ~BadEdition(body) /\ ~BadUtr(body) =>
        LET wrong(i) ==
                \/ ~IntegerAtLeastOne(body.items[i].quantity)
                \/ \A j \in 1..Len(products) : products[j].id # body.items[i].id
            firstWrong == {i \in 1..Len(body.items) :
                              wrong(i) /\ \A j \in 1..(i - 1) : ~wrong(j)}
        IN  /\ \A i \in firstWrong :
                ~IntegerAtLeastOne(body.items[i].quantity) =>
                    /\ pc = "responded"
                    /\ resp.error = QuantityInvalid(body.items[i].id)
            /\ Succeeded =>
                \A i \in 1..Len(resp.items) : IntegerAtLeastOne(resp.items[i].quantity)

\* C14: no successful intake returns the orderId of an order the order store
\* already holds.
C14_NoOrderIdReuse ==
    Succeeded => \A k \in DOMAIN dbOrders : dbOrders[k].orderId # resp.orderId

(*************************************************************************)
(* Order review: approveOrder, rejectOrder                               *)
(*************************************************************************)
\* An id `new ObjectId(id)` rejects, and a well-formed id of no order
MalformedId == "not-an-object-id"
UnknownOrderKey == "65f0ff"
AdminOrderIds == OrderKeys \cup {UnknownOrderKey, MalformedId}

\* UpdateOrderStatus as replaceOne: the document is replaced by the new fields
UpdateOrderStatusReplaces(orderId, status) ==
    [k \in DOMAIN dbOrders |->
        IF k = orderId
        THEN [dbOrders[k] EXCEPT !.status = status, !.updatedAt = now,
                                 !.items = <<>>, !.total = 0]
        ELSE dbOrders[k]]

\* db.collection("orders").updateOne({ _id }, { $set: { status, updatedAt } })
UpdateOrderStatus(orderId, status) ==
    [k \in DOMAIN dbOrders |->
        IF k = orderId
        THEN [dbOrders[k] EXCEPT !.status = status, !.updatedAt = now]
        ELSE dbOrders[k]]

approveOrder(orderId) ==
    /\ IF orderId # MalformedId
       THEN /\ dbOrders' = UpdateOrderStatus(orderId, "success")
            /\ ret' = [op |-> "approveOrder", orderId |-> orderId,
                       success |-> TRUE, error |-> ""]
       ELSE /\ dbOrders' = dbOrders
            /\ ret' = [op |-> "approveOrder", orderId |-> orderId,
                       success |-> FALSE, error |-> "Failed to approve order."]
    /\ UNCHANGED <<intakeVars, now, restVars, catalogVars, sidebarVars, payVars, adminVars>>

rejectOrder(orderId) ==
    /\ IF orderId # MalformedId
       THEN /\ dbOrders' = UpdateOrderStatus(orderId, "rejected")
            /\ ret' = [op |-> "rejectOrder", orderId |-> orderId,
                       success |-> TRUE, error |-> ""]
       ELSE /\ dbOrders' = dbOrders
            /\ ret' = [op |-> "rejectOrder", orderId |-> orderId,
                       success |-> FALSE, error |-> "Failed to reject order."]
    /\ UNCHANGED <<intakeVars, now, restVars, catalogVars, sidebarVars, payVars, adminVars>>

ReviewNext ==
    \/ \E orderId \in AdminOrderIds : approveOrder(orderId)
    \/ \E orderId \in AdminOrderIds : rejectOrder(orderId)
    \/ Tick

ReviewSpec == Init /\ [][ReviewNext]_vars

\* C5: an order whose status is success or rejected keeps that status
\* whatever approveOrder and rejectOrder calls follow, and no order returns
\* to pending.
C5_TerminalStatus ==
    [][\A k \in DOMAIN dbOrders :
        /\ dbOrders[k].status \in {"success", "rejected"} =>
                dbOrders'[k].status = dbOrders[k].status
        /\ dbOrders[k].status # "pending" => dbOrders'[k].status # "pending"]_vars

(*************************************************************************)
(* Product administration: addProduct, updateProduct, deleteProduct      *)
(*************************************************************************)
DragonRank == <<"D","r","a","g","o","n"," ","R","a","n","k">>
RankKnightName == <<"R","a","n","k"," ","K","n","i","g","h","t","!">>
ProductNames == {DragonRank, RankKnightName}
AdminPrices == {1299, 1}
\* ProductData; category, image, description, perks, badge and popular are
\* stored and returned as given and are left out
ProductDatas == [name : ProductNames, price : AdminPrices]
ProductKeys == 1..MaxProducts

addProduct(data) ==
    /\ nextKey <= MaxProducts
    /\ dbProducts' = dbProducts @@
            (nextKey :> [id |-> Slug(data.name), name |-> data.name, price |-> data.price])
    /\ nextKey' = nextKey + 1
    /\ UNCHANGED <<intakeVars, now, restVars, reviewVars, sidebarVars, payVars, adminVars>>

updateProduct(mongoId, data) ==
    /\ dbProducts' =
            [k \in DOMAIN dbProducts |->
                IF k = mongoId
                THEN [dbProducts[k] EXCEPT !.name = data.name, !.price = data.price]
                ELSE dbProducts[k]]
    /\ UNCHANGED <<nextKey, intakeVars, now, restVars, reviewVars, sidebarVars, payVars, adminVars>>

deleteProduct(mongoId) ==
    /\ dbProducts' = [k \in DOMAIN dbProducts \ {mongoId} |-> dbProducts[k]]
    /\ UNCHANGED <<nextKey, intakeVars, now, restVars, reviewVars, sidebarVars, payVars, adminVars>>

\* Well-formed checkout bodies for one product each
CatalogBodies ==
    { [parses |-> TRUE, minecraftUsername |-> Steve_123, edition |-> "java",
       utrNumber |-> Utr12,
       items |-> << [id |-> id, quantity |-> Whole(1), price |-> 0] >>] :
        id \in {RankKnight, Slug(DragonRank)} }

CatalogNext ==
    \/ \E data \in ProductDatas : addProduct(data)
    \/ \E mongoId \in ProductKeys, data \in ProductDatas : updateProduct(mongoId, data)
    \/ \E mongoId \in ProductKeys : deleteProduct(mongoId)
    \/ \E b \in CatalogBodies : POST(b)
    \/ SendMailResolve
    \/ SendMailReject
    \/ SendMailHang
    \/ NextRequest

CatalogSpec == Init /\ [][CatalogNext]_vars

\* C3: intake looks products up, at intake time, in the store the admin
\* product operations modify: an item is priced at the price its product has
\* there, an item whose id no product there has fails with an error naming
\* the id, and a product that is there can be ordered.
C3_IntakeUsesCatalogStore ==
    [][pc = "idle" /\ pc' # "idle" /\ body'.parses =>
        \A i \in 1..Len(body'.items) :
            LET id == body'.items[i].id
                stored == {k \in DOMAIN dbProducts : dbProducts[k].id = id}
            IN  /\ stored = {} => pc' = "responded" /\ resp'.error = ProductNotFound(id)
                /\ stored # {} =>
                    /\ pc' = "emailing"
                    /\ \E k \in stored : order'.items[i].price = dbProducts[k].price]_vars

\* C20: no two products in the products collection have the same id.
C20_UniqueProductIds ==
    \A j, k \in DOMAIN dbProducts : j # k => dbProducts[j].id # dbProducts[k].id

(*************************************************************************)
(* CartSidebar: the username step                                        *)
(*************************************************************************)
\* What can be typed into the username field: up to MaxCore characters of
\* each kind, at the start, inside or at the end of a run of letters, in
\* every length the field allows
Alphabet == {"a", "7", "_", " ", ".", "!"}
Cores == UNION { [1..n -> Alphabet] : n \in 0..MaxCore }
Filler(n) == [i \in 1..n |-> "a"]
RawUsernames ==
    { v \in { Filler(n) \o core \o Filler(m) :
                core \in Cores, n \in 0..InputMaxLength, m \in 0..1 } :
        Len(v) <= InputMaxLength }
\* What the shopper types over a username already in the field
RetypedUsernames == { <<>>, Steve_123, <<"S","t","e","v","e"," ","1","2","3">> }

\* /^[a-zA-Z0-9_ ]+$/.test(s)
ClientUsernameCharsOk(s) ==
    s # <<>> /\ \A i \in 1..Len(s) : s[i] \in WordChars \cup {" "}

\* finalUsername that prefixes the '.' and leaves the whitespace in place
FinalUsernameKeepsSpaces ==
    IF edition = "bedrock" /\ ~(username # <<>> /\ Head(username) = ".")
    THEN <<".">> \o Trim(username)
    ELSE Trim(username)

\* finalUsername
FinalUsername ==
    IF edition = "bedrock" /\ ~(username # <<>> /\ Head(username) = ".")
    THEN <<".">> \o Underscored(Trim(username))
    ELSE Trim(username)

goToUsername ==
    /\ step = "cart"
    /\ items # <<>>
    /\ step' = "username"
    /\ usernameError' = ""
    /\ UNCHANGED <<username, edition, items, payVars,
                   intakeVars, now, restVars, reviewVars, catalogVars, adminVars>>

backToCart ==
    /\ step = "username"
    /\ step' = "cart"
    /\ usernameError' = ""
    /\ UNCHANGED <<username, edition, items, payVars,
                   intakeVars, now, restVars, reviewVars, catalogVars, adminVars>>

\* onClick of the Java / Bedrock toggle buttons
setEdition(e) ==
    /\ step = "username"
    /\ edition' = e
    /\ UNCHANGED <<step, username, usernameError, items, payVars,
                   intakeVars, now, restVars, reviewVars, catalogVars, adminVars>>

\* onChange of the username field
setUsername(v) ==
    /\ step = "username"
    /\ username' = v
    /\ usernameError' = ""
    /\ UNCHANGED <<step, edition, items, payVars,
                   intakeVars, now, restVars, reviewVars, catalogVars, adminVars>>

\* goToPayment that tests for an empty username only
goToPaymentUnchecked ==
    /\ step = "username"
    /\ LET trimmed == Trim(username)
       IN  IF trimmed = <<>>
           THEN /\ usernameError' = "Please enter your Minecraft username."
                /\ step' = step
           ELSE /\ usernameError' = ""
                /\ step' = "payment"
    /\ UNCHANGED <<username, edition, items, payVars,
                   intakeVars, now, restVars, reviewVars, catalogVars, adminVars>>

goToPayment ==
    /\ step = "username"
    /\ LET trimmed == Trim(username)
       IN  IF trimmed = <<>>
           THEN /\ usernameError' = "Please enter your Minecraft username."
                /\ step' = step
           ELSE IF Len(trimmed) < UsernameMinLen \/ Len(trimmed) > UsernameMaxLen
           THEN /\ usernameError' = "Username must be 3-16 characters."
                /\ step' = step
           ELSE IF ~ClientUsernameCharsOk(trimmed)
           THEN /\ usernameError' = "Only letters, numbers, underscores, and spaces allowed."
                /\ step' = step
           ELSE /\ usernameError' = ""
                /\ step' = "payment"
    /\ UNCHANGED <<username, edition, items, payVars,
                   intakeVars, now, restVars, reviewVars, catalogVars, adminVars>>

backToUsername ==
    /\ step = "payment"
    /\ step' = "username"
    /\ utrError' = ""
    /\ UNCHANGED <<username, usernameError, edition, items,
                   utrNumber, isProcessing, fetchBody, orderResult,
                   intakeVars, now, restVars, reviewVars, catalogVars, adminVars>>

\* A shopper has put a product into the cart, opened the sidebar, gone on to
\* the username step, chosen an edition and typed a username
\* The line of the cart carries an id intake knows, the one of a products
\* document whose _id is the slug itself; the documents that addProduct and
\* the seed insert get an ObjectId and are the subject of StoreSpec.
UsernameInit ==
    /\ PayInit
    /\ AdminInit
    /\ RestInit
    /\ pc = "idle"
    /\ body = NoBody
    /\ order = NoOrder
    /\ resp = NoResponse
    /\ mail = "none"
    /\ served = 0
    /\ now = 0
    /\ dbOrders = [k \in OrderKeys |-> InitialOrder(k)]
    /\ ret = NoReturn
    /\ dbProducts = <<>>
    /\ nextKey = 1
    /\ step = "username"
    /\ username \in RawUsernames
    /\ usernameError = ""
    /\ edition \in {"java", "bedrock"}
    /\ items = << [id |-> RankKnight, name |-> FindProduct(RankKnight).name,
                   price |-> 999, quantity |-> 1] >>

UsernameNext ==
    \/ goToUsername
    \/ backToCart
    \/ \E e \in {"java", "bedrock"} : setEdition(e)
    \/ \E v \in RetypedUsernames : setUsername(v)
    \/ goToPayment
    \/ backToUsername

UsernameSpec == UsernameInit /\ [][UsernameNext]_vars

\* C10: for every raw username that passes the username step, and for both
\* editions, the username the sidebar submits matches /^\.?[A-Za-z0-9_]{3,16}$/
\* and passes the username check of intake.
C10_SubmittedUsernameAccepted ==
    step = "payment" =>
        /\ ServerUsernameOk(FinalUsername)
        /\ ~BadUsername([minecraftUsername |-> FinalUsername])

(*************************************************************************)
(* CartSidebar: the payment step                                         *)
(*************************************************************************)
\* e.target.value.replace(/\D/g, "")
DigitsOnly(s) == SelectSeq(s, LAMBDA c : c \in Digits)
\* s.slice(0, n)
Slice(s, n) == SubSeq(s, 1, IF Len(s) < n THEN Len(s) ELSE n)

\* What the shopper types or pastes into the UTR field
TypedUtrs ==
    { <<>>, Utr12 \o <<"7">>, <<" ">> \o Utr12, SubSeq(Utr12, 1, 11) \o <<"a">> }

\* onChange of the UTR field
setUtrNumber(v) ==
    /\ step = "payment"
    /\ utrNumber' = Slice(DigitsOnly(v), UtrLen)
    /\ utrError' = ""
    /\ UNCHANGED <<isProcessing, fetchBody, orderResult, sidebarVars,
                   intakeVars, now, restVars, reviewVars, catalogVars, adminVars>>

\* JSON.stringify({ minecraftUsername: finalUsername, edition, utrNumber, items })
CheckoutRequest(trimmedUtr) ==
    [parses |-> TRUE, minecraftUsername |-> FinalUsername, edition |-> edition,
     utrNumber |-> trimmedUtr,
     items |-> [i \in 1..Len(items) |->
                   [id |-> items[i].id, quantity |-> Whole(items[i].quantity),
                    price |-> 0]]]

\* handlePlaceOrder up to its await of fetch; the Place Order button is
\* disabled, and the Enter key ignored, while isProcessing
handlePlaceOrder ==
    /\ step = "payment"
    /\ ~isProcessing
    /\ LET trimmedUtr == Trim(utrNumber)
       IN  IF trimmedUtr = <<>>
           THEN /\ utrError' = "Please enter your UTR / Transaction ID."
                /\ UNCHANGED <<isProcessing, fetchBody, orderResult>>
           ELSE IF ~UtrOk(trimmedUtr)
           THEN /\ utrError' = "UTR must be exactly 12 digits."
                /\ UNCHANGED <<isProcessing, fetchBody, orderResult>>
           ELSE /\ utrError' = ""
                /\ isProcessing' = TRUE
                /\ orderResult' = NoOrderResult
                /\ fetchBody' = CheckoutRequest(trimmedUtr)
    /\ UNCHANGED <<utrNumber, sidebarVars,
                   intakeVars, now, restVars, reviewVars, catalogVars, adminVars>>

\* The fetch resolves, and the handler clears the cart whatever the answer is
fetchResolvesClearsAlways ==
    /\ isProcessing
    /\ isProcessing' = FALSE
    /\ IF CheckoutError(fetchBody) = NoError
       THEN \E suffix \in Suffixes :
            /\ step' = "success"
            /\ orderResult' =
                 [orderId |-> <<now, suffix>>,
                  total |-> TotalAmount(fetchBody.items,
                                        [i \in 1..(Len(fetchBody.items) + 1) |-> FALSE]),
                  username |-> fetchBody.minecraftUsername,
                  error |-> NoError]
       ELSE /\ step' = "error"
            /\ orderResult' = [NoOrderResult EXCEPT !.error = CheckoutError(fetchBody)]
    /\ items' = <<>>
    /\ UNCHANGED <<username, usernameError, edition, utrNumber, utrError, fetchBody,
                   intakeVars, now, restVars, reviewVars, catalogVars, adminVars>>

\* The fetch resolves with the answer of POST /api/checkout to fetchBody:
\* the confirmation when every check passes, else the error of the first
\* check that fails.  A cart quantity is a whole number, so no amount lies
\* between two cents.
fetchResolves ==
    /\ isProcessing
    /\ isProcessing' = FALSE
    /\ IF CheckoutError(fetchBody) = NoError
       THEN \E suffix \in Suffixes :
            /\ step' = "success"
            /\ orderResult' =
                 [orderId |-> <<now, suffix>>,
                  total |-> TotalAmount(fetchBody.items,
                                        [i \in 1..(Len(fetchBody.items) + 1) |-> FALSE]),
                  username |-> fetchBody.minecraftUsername,
                  error |-> NoError]
            /\ items' = <<>>
       ELSE /\ step' = "error"
            /\ orderResult' = [NoOrderResult EXCEPT !.error = CheckoutError(fetchBody)]
            /\ items' = items
    /\ UNCHANGED <<username, usernameError, edition, utrNumber, utrError, fetchBody,
                   intakeVars, now, restVars, reviewVars, catalogVars, adminVars>>

\* The fetch rejects, or the answer is not JSON: the catch branch
fetchRejects ==
    /\ isProcessing
    /\ isProcessing' = FALSE
    /\ step' = "error"
    /\ orderResult' =
         [NoOrderResult EXCEPT !.error = Err("Network error. Please try again.", <<>>, 0)]
    /\ UNCHANGED <<username, usernameError, edition, items, utrNumber, utrError,
                   fetchBody, intakeVars, now, restVars, reviewVars, catalogVars, adminVars>>

retryPayment ==
    /\ step = "error"
    /\ step' = "payment"
    /\ orderResult' = NoOrderResult
    /\ UNCHANGED <<username, usernameError, edition, items, utrNumber, utrError,
                   isProcessing, fetchBody,
                   intakeVars, now, restVars, reviewVars, catalogVars, adminVars>>

\* The close button of the sidebar and the Done button of the success step
resetAndClose ==
    /\ step' = "cart"
    /\ edition' = "java"
    /\ username' = <<>>
    /\ usernameError' = ""
    /\ utrNumber' = <<>>
    /\ utrError' = ""
    /\ orderResult' = NoOrderResult
    /\ UNCHANGED <<items, isProcessing, fetchBody,
                   intakeVars, now, restVars, reviewVars, catalogVars, adminVars>>

SidebarNext ==
    \/ goToUsername
    \/ backToCart
    \/ \E e \in {"java", "bedrock"} : setEdition(e)
    \/ \E v \in RetypedUsernames : setUsername(v)
    \/ goToPayment
    \/ backToUsername
    \/ \E v \in TypedUtrs : setUtrNumber(v)
    \/ handlePlaceOrder
    \/ fetchResolves
    \/ fetchRejects
    \/ retryPayment
    \/ resetAndClose

\* The sidebar from the username step on, for every username that can be typed
SidebarSpec == UsernameInit /\ [][SidebarNext]_vars

\* C11: with edition bedrock the username the sidebar submits is the trimmed
\* raw input with every whitespace character replaced by '_' and a '.' put in
\* front unless it starts with one; with edition java it is the trimmed raw
\* input.
SubmittedUsername(raw, e) ==
    LET trimmed == Trim(raw)
        replaced == [i \in 1..Len(trimmed) |->
                        IF trimmed[i] \in Whitespace THEN "_" ELSE trimmed[i]]
    IN  IF e = "java" THEN trimmed
        ELSE IF replaced # <<>> /\ replaced[1] = "." THEN replaced
        ELSE <<".">> \o replaced

UtrBodies ==
    { [parses |-> TRUE, minecraftUsername |-> Steve_123, edition |-> "java",
       utrNumber |-> t,
       items |-> << [id |-> RankKnight, quantity |-> Whole(1), price |-> 0] >>] :
        t \in UtrValues }

\* A shopper has reached the payment step
PaymentInit ==
    /\ PayInit
    /\ AdminInit
    /\ RestInit
    /\ pc = "idle"
    /\ body = NoBody
    /\ order = NoOrder
    /\ resp = NoResponse
    /\ mail = "none"
    /\ served = 0
    /\ now = 0
    /\ dbOrders = [k \in OrderKeys |-> InitialOrder(k)]
    /\ ret = NoReturn
    /\ dbProducts = <<>>
    /\ nextKey = 1
    /\ step = "payment"
    /\ username = Steve_123
    /\ usernameError = ""
    /\ edition \in {"java", "bedrock"}
    /\ items = << [id |-> RankKnight, name |-> FindProduct(RankKnight).name,
                   price |-> 999, quantity |-> 1] >>

PaymentNext ==
    \/ \E v \in TypedUtrs : setUtrNumber(v)
    \/ handlePlaceOrder
    \/ fetchResolves
    \/ fetchRejects
    \/ retryPayment
    \/ \E b \in UtrBodies : POST(b)
    \/ SendMailResolve
    \/ SendMailReject
    \/ SendMailHang
    \/ NextRequest

PaymentSpec == PaymentInit /\ [][PaymentNext]_vars

\* C13: intake accepts the transaction reference of a request if and only if
\* it is exactly 12 decimal digits, and the sidebar sends a request only when
\* its UTR field holds exactly 12 digits.
TwelveDigits(t) == Len(t) = 12 /\ \A i \in 1..Len(t) : t[i] \in Digits
UtrRejected == pc = "responded" /\ resp.error \in {UtrRequired, UtrInvalid}

C13_UtrExactlyTwelveDigits ==
    /\ [](pc # "idle" /\ body.parses /\ ~BadUsername(body) /\ ~BadEdition(body) =>
            (UtrRejected <=> ~TwelveDigits(body.utrNumber)))
    /\ [][~isProcessing /\ isProcessing' =>
            TwelveDigits(utrNumber) /\ fetchBody'.utrNumber = utrNumber]_vars

\* C13 as amended: the transaction reference is accepted if and only if it is
\* exactly 12 decimal digits once leading and trailing whitespace is removed.
C13_TrimmedUtrTwelveDigits ==
    /\ [](pc # "idle" /\ body.parses /\ ~BadUsername(body) /\ ~BadEdition(body) =>
            (UtrRejected <=> ~TwelveDigits(Trim(body.utrNumber))))
    /\ [][~isProcessing /\ isProcessing' =>
            TwelveDigits(utrNumber) /\ fetchBody'.utrNumber = utrNumber]_vars

C13_Witness ==
    /\ Succeeded
    /\ body.utrNumber = <<" ">> \o Utr12 \o <<"\n">>
    /\ order.utrNumber = Utr12
    /\ isProcessing
    /\ fetchBody.utrNumber = Utr12

(*************************************************************************)
(* approveOrder and rejectOrder, await by await.  A server action runs   *)
(* up to its `await updateOne`, the database applies the update, and     *)
(* the action goes on to revalidatePath and returns.  Several            *)
(* invocations can be under way at once.  The database is reachable:     *)
(* connectToDatabase and updateOne resolve.                              *)
(*************************************************************************)
\* The status an action writes
StatusOf(op) == IF op = "approveOrder" THEN "success" ELSE "rejected"
\* The error an action returns from its catch
FailureOf(op) ==
    IF op = "approveOrder" THEN "Failed to approve order." ELSE "Failed to reject order."

\* An invocation: `applied` is its place among the updates the database
\* has applied (0: none yet), `page` tells that OrderTableClient made it
Invocation(op, orderId, page) ==
    [op |-> op, orderId |-> orderId, at |-> "called", success |-> FALSE,
     error |-> "", applied |-> 0, page |-> page]

\* The updates the database has applied so far
Applied == {i \in 1..Len(calls) : calls[i].applied > 0}

\* approveOrder(orderId) is invoked
approveOrderCalled(orderId) ==
    /\ Len(calls) < MaxCalls
    /\ calls' = Append(calls, Invocation("approveOrder", orderId, FALSE))
    /\ UNCHANGED <<panelVars, adminRequest, intakeVars, now, restVars, reviewVars,
                   catalogVars, sidebarVars, payVars>>

\* rejectOrder(orderId) is invoked
rejectOrderCalled(orderId) ==
    /\ Len(calls) < MaxCalls
    /\ calls' = Append(calls, Invocation("rejectOrder", orderId, FALSE))
    /\ UNCHANGED <<panelVars, adminRequest, intakeVars, now, restVars, reviewVars,
                   catalogVars, sidebarVars, payVars>>

\* getOrders with .limit(2) after the sort
getOrdersLimited ==
    LET keys == DOMAIN dbOrders
        n == Cardinality(keys)
        place(k) == 1 + Cardinality({j \in keys :
                                        dbOrders[j].createdAt > dbOrders[k].createdAt})
        sorted == [i \in 1..n |-> CHOOSE k \in keys : place(k) = i]
    IN  [i \in 1..(IF n < 2 THEN n ELSE 2) |-> [_id |-> sorted[i]] @@ dbOrders[sorted[i]]]

\* getOrders: find({}).sort({ createdAt: -1 }).toArray(), each document with
\* its _id as a string.  No two stored orders have the same createdAt, so
\* the sort leaves no choice: an order's place is one more than the number
\* of orders created after it.
getOrders ==
    LET keys == DOMAIN dbOrders
        n == Cardinality(keys)
        place(k) == 1 + Cardinality({j \in keys :
                                        dbOrders[j].createdAt > dbOrders[k].createdAt})
        sorted == [i \in 1..n |-> CHOOSE k \in keys : place(k) = i]
    IN  [i \in 1..n |-> [_id |-> sorted[i]] @@ dbOrders[sorted[i]]]

\* What the action does once the update is applied and when the ObjectId
\* constructor throws: revalidatePath and return.  The page that made the
\* call is rendered again with the orders read now, and handleApprove /
\* handleReject go on to setLoadingId(null).
Returned(i, success) ==
    /\ calls' = [calls EXCEPT ![i].at = "returned", ![i].success = success,
                              ![i].error = IF success THEN "" ELSE FailureOf(calls[i].op)]
    /\ IF calls[i].page
       THEN orders' = getOrders /\ loadingId' = NoId
       ELSE UNCHANGED <<orders, loadingId>>

\* updateOne that answers an error when the order already has the status
updateOneRefusesRepeat(i) ==
    /\ i \in 1..Len(calls)
    /\ calls[i].at = "called"
    /\ IF calls[i].orderId = MalformedId
          \/ (calls[i].orderId \in DOMAIN dbOrders
              /\ dbOrders[calls[i].orderId].status = StatusOf(calls[i].op))
       THEN /\ Returned(i, FALSE)
            /\ UNCHANGED dbOrders
       ELSE /\ dbOrders' = UpdateOrderStatus(calls[i].orderId, StatusOf(calls[i].op))
            /\ calls' = [calls EXCEPT ![i].at = "updated",
                                      ![i].applied = Cardinality(Applied) + 1]
            /\ UNCHANGED <<orders, loadingId>>
    /\ UNCHANGED <<ret, filter, adminRequest, intakeVars, now, restVars,
                   catalogVars, sidebarVars, payVars>>

\* updateOne whose filter is { _id, status: "pending" }
updateOnePendingOnly(i) ==
    /\ i \in 1..Len(calls)
    /\ calls[i].at = "called"
    /\ IF calls[i].orderId = MalformedId
       THEN /\ Returned(i, FALSE)
            /\ UNCHANGED dbOrders
       ELSE /\ dbOrders' =
                 IF calls[i].orderId \in DOMAIN dbOrders
                    /\ dbOrders[calls[i].orderId].status = "pending"
                 THEN UpdateOrderStatus(calls[i].orderId, StatusOf(calls[i].op))
                 ELSE dbOrders
            /\ calls' = [calls EXCEPT ![i].at = "updated",
                                      ![i].applied = Cardinality(Applied) + 1]
            /\ UNCHANGED <<orders, loadingId>>
    /\ UNCHANGED <<ret, filter, adminRequest, intakeVars, now, restVars,
                   catalogVars, sidebarVars, payVars>>

\* Invocation i goes from its start to the end of `await updateOne`: the
\* database applies the update in one step.  `new ObjectId(orderId)` throws
\* for a malformed id, and the catch returns the failure.
updateOne(i) ==
    /\ i \in 1..Len(calls)
    /\ calls[i].at = "called"
    /\ IF calls[i].orderId = MalformedId
       THEN /\ Returned(i, FALSE)
            /\ UNCHANGED dbOrders
       ELSE /\ dbOrders' = UpdateOrderStatus(calls[i].orderId, StatusOf(calls[i].op))
            /\ calls' = [calls EXCEPT ![i].at = "updated",
                                      ![i].applied = Cardinality(Applied) + 1]
            /\ UNCHANGED <<orders, loadingId>>
    /\ UNCHANGED <<ret, filter, adminRequest, intakeVars, now, restVars,
                   catalogVars, sidebarVars, payVars>>

\* Invocation i goes on after the update: revalidatePath, return { success: true }
actionReturns(i) ==
    /\ i \in 1..Len(calls)
    /\ calls[i].at = "updated"
    /\ Returned(i, TRUE)
    /\ UNCHANGED <<filter, adminRequest, intakeVars, now, restVars, reviewVars,
                   catalogVars, sidebarVars, payVars>>

RaceNext ==
    \/ \E orderId \in AdminOrderIds : approveOrderCalled(orderId)
    \/ \E orderId \in AdminOrderIds : rejectOrderCalled(orderId)
    \/ \E i \in 1..MaxCalls : updateOne(i)
    \/ \E i \in 1..MaxCalls : actionReturns(i)
    \/ Tick

RaceSpec == Init /\ [][RaceNext]_vars

\* The invocations whose update of order k the database has applied
AppliedTo(k) == {i \in Applied : calls[i].orderId = k}

\* C15: calling approveOrder twice on the same order leaves its status
\* success after the first call and after the second, and the second call
\* returns success without error; likewise rejectOrder and rejected.
C15_RepeatedCallIdempotent ==
    \A k \in OrderKeys, op \in {"approveOrder", "rejectOrder"} :
        LET on == {i \in 1..Len(calls) : calls[i].orderId = k}
        IN  (\A i \in on : calls[i].op = op) =>
                /\ \A i \in on :
                    calls[i].at = "returned" =>
                        /\ calls[i].success
                        /\ calls[i].error = ""
                        /\ dbOrders[k].status = StatusOf(op)
                /\ AppliedTo(k) # {} => dbOrders[k].status = StatusOf(op)

C15_Witness ==
    /\ Len(calls) = 2
    /\ \A i \in 1..2 :
        /\ calls[i].op = "approveOrder"
        /\ calls[i].orderId = "65f0a1"
        /\ calls[i].at = "returned"
        /\ calls[i].success
        /\ calls[i].applied = i
    /\ dbOrders["65f0a1"].status = "success"

\* C16: approveOrder and rejectOrder on an order change that order's status
\* and updatedAt and nothing else: its other fields stay, and every other
\* order stays.
C16_OnlyStatusAndUpdatedAt ==
    [][/\ DOMAIN dbOrders' = DOMAIN dbOrders
       /\ \A k \in DOMAIN dbOrders :
            dbOrders'[k] # dbOrders[k] =>
                /\ \E i \in 1..Len(calls) :
                    /\ calls[i].orderId = k
                    /\ calls[i].at = "called"
                    /\ calls'[i].at = "updated"
                /\ [dbOrders'[k] EXCEPT !.status = dbOrders[k].status,
                                        !.updatedAt = dbOrders[k].updatedAt] = dbOrders[k]]_vars

C16_Witness ==
    /\ now = 1
    /\ dbOrders["65f0a2"] =
         [InitialOrder("65f0a2") EXCEPT !.status = "rejected", !.updatedAt = 1]
    /\ dbOrders["65f0a1"] = InitialOrder("65f0a1")
    /\ dbOrders["65f0a3"] = InitialOrder("65f0a3")
    /\ \E i \in 1..Len(calls) : calls[i].at = "returned" /\ calls[i].orderId = "65f0a2"

\* C17: when approveOrder and rejectOrder run at the same time on one pending
\* order, each update is applied in one step; once both are applied the
\* status is the one written by the update applied last, it is not pending,
\* and both calls return success.
C17_LastUpdateWins ==
    \A k \in OrderKeys :
        AppliedTo(k) # {} =>
            LET last == CHOOSE i \in AppliedTo(k) :
                            \A j \in AppliedTo(k) : calls[j].applied <= calls[i].applied
            IN  /\ dbOrders[k].status = StatusOf(calls[last].op)
                /\ dbOrders[k].status # "pending"
                /\ \A i \in AppliedTo(k) :
                    /\ calls[i].at \in {"updated", "returned"}
                    /\ calls[i].at = "returned" => calls[i].success

\* approveOrder is called first and applied last
C17_Witness ==
    /\ Len(calls) = 2
    /\ calls[1].op = "approveOrder" /\ calls[2].op = "rejectOrder"
    /\ calls[1].orderId = "65f0a1" /\ calls[2].orderId = "65f0a1"
    /\ calls[1].applied = 2 /\ calls[2].applied = 1
    /\ calls[1].at = "returned" /\ calls[2].at = "returned"
    /\ calls[1].success /\ calls[2].success
    /\ dbOrders["65f0a1"].status = "success"

(*************************************************************************)
(* The admin orders page (AdminOrdersPage, OrderTableClient) and the     *)
(* dashboard                                                             *)
(*************************************************************************)
FilterTabs == {"all", "pending", "success", "rejected"}

\* tab === "all" ? list : list.filter((o) => o.status === tab)
FilterOrders(list, tab) ==
    IF tab = "all" THEN list ELSE SelectSeq(list, LAMBDA o : o.status = tab)

\* filteredOrders
filteredOrders == FilterOrders(orders, filter)

\* The count a filter tab shows
TabCount(list, tab) ==
    IF tab = "all" THEN Len(list) ELSE Len(SelectSeq(list, LAMBDA o : o.status = tab))

\* isPending of useTransition: a call the page made has not returned
isPending == \E i \in 1..Len(calls) : calls[i].page /\ calls[i].at # "returned"

RECURSIVE SumOfTotals(_)
\* $group: { total: { $sum: "$total" } } over the orders with _id in S
SumOfTotals(S) ==
    IF S = {} THEN 0
    ELSE LET k == CHOOSE x \in S : TRUE
         IN  dbOrders[k].total + SumOfTotals(S \ {k})

\* getDashboardStats, for the orders collection
getDashboardStats ==
    [totalOrders |-> Cardinality(DOMAIN dbOrders),
     pendingOrders |-> Cardinality({k \in DOMAIN dbOrders : dbOrders[k].status = "pending"}),
     successOrders |-> Cardinality({k \in DOMAIN dbOrders : dbOrders[k].status = "success"}),
     totalRevenue |-> SumOfTotals({k \in DOMAIN dbOrders : dbOrders[k].status = "success"})]

\* The orders page is loaded: getOrders, and OrderTableClient is mounted
AdminOrdersPage ==
    /\ orders' = getOrders
    /\ filter' = "all"
    /\ loadingId' = NoId
    /\ UNCHANGED <<calls, adminRequest, intakeVars, now, restVars, reviewVars,
                   catalogVars, sidebarVars, payVars>>

\* onClick of a filter tab
setFilter(tab) ==
    /\ filter' = tab
    /\ UNCHANGED <<orders, loadingId, calls, adminRequest, intakeVars, now, restVars,
                   reviewVars, catalogVars, sidebarVars, payVars>>

\* The Approve / Reject buttons of an order are rendered while the list
\* shows it as pending, and disabled while isPending && loadingId === _id
ButtonsEnabled(id) ==
    /\ \E i \in 1..Len(orders) : orders[i]._id = id /\ orders[i].status = "pending"
    /\ ~(isPending /\ loadingId = id)

handleApprove(id) ==
    /\ ButtonsEnabled(id)
    /\ Len(calls) < MaxCalls
    /\ loadingId' = id
    /\ calls' = Append(calls, Invocation("approveOrder", id, TRUE))
    /\ UNCHANGED <<orders, filter, adminRequest, intakeVars, now, restVars, reviewVars,
                   catalogVars, sidebarVars, payVars>>

handleReject(id) ==
    /\ ButtonsEnabled(id)
    /\ Len(calls) < MaxCalls
    /\ loadingId' = id
    /\ calls' = Append(calls, Invocation("rejectOrder", id, TRUE))
    /\ UNCHANGED <<orders, filter, adminRequest, intakeVars, now, restVars, reviewVars,
                   catalogVars, sidebarVars, payVars>>

\* An admin has opened the orders page
PanelInit ==
    /\ PayInit
    /\ RestInit
    /\ dbOrders = [k \in OrderKeys |-> InitialOrder(k)]
    /\ calls = <<>>
    /\ orders = getOrders
    /\ filter = "all"
    /\ loadingId = NoId
    /\ adminRequest = NoRequest
    /\ pc = "idle"
    /\ body = NoBody
    /\ order = NoOrder
    /\ resp = NoResponse
    /\ mail = "none"
    /\ served = 0
    /\ now = 0
    /\ ret = NoReturn
    /\ dbProducts = <<>>
    /\ nextKey = 1
    /\ step = "cart"
    /\ username = <<>>
    /\ usernameError = ""
    /\ edition = "java"
    /\ items = <<>>

PanelNext ==
    \/ AdminOrdersPage
    \/ \E tab \in FilterTabs : setFilter(tab)
    \/ \E id \in OrderKeys : handleApprove(id)
    \/ \E id \in OrderKeys : handleReject(id)
    \/ \E i \in 1..MaxCalls : updateOne(i)
    \/ \E i \in 1..MaxCalls : actionReturns(i)

PanelSpec == PanelInit /\ [][PanelNext]_vars

\* C18: in every reachable state, listing the orders and filtering by a
\* status s gives exactly the orders whose status is s, each count shown (the
\* filter tabs, the dashboard) is the size of that set, and listing or
\* filtering changes no order.  The list the page holds is the store's
\* whenever no action of the page is between its update and its return.
OrdersWithStatus(s) == {k \in DOMAIN dbOrders : dbOrders[k].status = s}
IdsOf(list) == {list[i]._id : i \in 1..Len(list)}

C18_FilterMatchesStatus ==
    /\ [](LET listed == getOrders
              stats == getDashboardStats
          IN  /\ \A s \in {"pending", "success", "rejected"} :
                    /\ IdsOf(FilterOrders(listed, s)) = OrdersWithStatus(s)
                    /\ Len(FilterOrders(listed, s)) = Cardinality(OrdersWithStatus(s))
                    /\ TabCount(listed, s) = Cardinality(OrdersWithStatus(s))
                    /\ TabCount(orders, s) = Len(FilterOrders(orders, s))
              /\ stats.pendingOrders = Cardinality(OrdersWithStatus("pending"))
              /\ stats.successOrders = Cardinality(OrdersWithStatus("success"))
              /\ TabCount(listed, "all") = stats.totalOrders
              /\ (\A i \in 1..Len(calls) : calls[i].at # "updated") => orders = listed)
    /\ [][calls' = calls => dbOrders' = dbOrders]_vars

\* Three pending orders, one approved and one rejected from the page: the
\* pending tab lists the one order still pending
C18_Witness ==
    /\ Len(calls) = 2
    /\ calls[1].op = "approveOrder" /\ calls[1].orderId = "65f0a1" /\ calls[1].at = "returned"
    /\ calls[2].op = "rejectOrder" /\ calls[2].orderId = "65f0a2" /\ calls[2].at = "returned"
    /\ filter = "pending"
    /\ IdsOf(filteredOrders) = {"65f0a3"}
    /\ Len(filteredOrders) = 1
    /\ TabCount(orders, "pending") = 1
    /\ dbOrders["65f0a3"].status = "pending"

(*************************************************************************)
(* Requests to the admin routes: middleware, then the route's handler.   *)
(* A path is the sequence of its segments.  The server actions of the    *)
(* orders and products pages are POST requests to the page's path.       *)
(*************************************************************************)
\* process.env.ADMIN_SECRET_KEY
ADMIN_SECRET_KEY == "s3cret"
\* The value of the admin_token cookie ("": no cookie)
Tokens == {"", ADMIN_SECRET_KEY, "guess"}

OrdersPath == <<"admin", "orders">>
ProductsPath == <<"admin", "products">>
LoginPath == <<"admin", "login">>
AuthPath == <<"api", "admin", "auth">>
SeedPath == <<"api", "admin", "seed">>
Paths == {OrdersPath, ProductsPath, LoginPath, AuthPath, SeedPath}

\* config.matcher: ["/admin/:path*"]
Matcher(pathname) == pathname # <<>> /\ pathname[1] = "admin"

\* middleware(request): NextResponse.next() or the redirect to /admin/login
middleware(pathname, adminToken) ==
    IF pathname = LoginPath
       \/ (Len(pathname) >= 3 /\ SubSeq(pathname, 1, 3) = AuthPath)
    THEN "next"
    ELSE IF adminToken = "" \/ adminToken # ADMIN_SECRET_KEY
    THEN "redirect"
    ELSE "next"

\* A request arrives: the middleware runs when the matcher selects the path
HttpRequest(pathname, adminToken) ==
    /\ adminRequest' =
         [path |-> pathname, token |-> adminToken,
          outcome |-> IF Matcher(pathname) THEN middleware(pathname, adminToken)
                      ELSE "next"]
    /\ UNCHANGED <<calls, panelVars, intakeVars, now, restVars, reviewVars,
                   catalogVars, sidebarVars, payVars>>

\* The request went past the middleware to the route at `pathname`
Routed(pathname) == adminRequest.outcome = "next" /\ adminRequest.path = pathname

\* POST /api/admin/seed: insertMany of the hardcoded products when the
\* collection is empty
seedPOST ==
    /\ Routed(SeedPath)
    /\ IF Cardinality(DOMAIN dbProducts) > 0
       THEN UNCHANGED <<dbProducts, nextKey>>
       ELSE /\ dbProducts' =
                 [k \in nextKey..(nextKey + Len(products) - 1) |->
                    products[k - nextKey + 1]]
            /\ nextKey' = nextKey + Len(products)
    /\ UNCHANGED <<intakeVars, now, restVars, reviewVars, sidebarVars, payVars, adminVars>>

approveOrderRequest(orderId) == Routed(OrdersPath) /\ approveOrder(orderId)
rejectOrderRequest(orderId) == Routed(OrdersPath) /\ rejectOrder(orderId)
addProductRequest(data) == Routed(ProductsPath) /\ addProduct(data)
updateProductRequest(mongoId, data) == Routed(ProductsPath) /\ updateProduct(mongoId, data)
deleteProductRequest(mongoId) == Routed(ProductsPath) /\ deleteProduct(mongoId)

AuthNext ==
    \/ \E pathname \in Paths, adminToken \in Tokens : HttpRequest(pathname, adminToken)
    \/ seedPOST
    \/ \E orderId \in {"65f0a1", MalformedId} : approveOrderRequest(orderId)
    \/ \E orderId \in {"65f0a1", MalformedId} : rejectOrderRequest(orderId)
    \/ \E data \in ProductDatas : addProductRequest(data)
    \/ \E mongoId \in ProductKeys, data \in ProductDatas : updateProductRequest(mongoId, data)
    \/ \E mongoId \in ProductKeys : deleteProductRequest(mongoId)

AuthSpec == Init /\ [][AuthNext]_vars

\* C19: every operation that changes the orders or products collection runs
\* only for a request whose admin_token cookie equals ADMIN_SECRET_KEY; a
\* request to such an operation without a valid token is redirected before
\* any of it runs.
C19_AdminOperationsNeedToken ==
    [][dbOrders' # dbOrders \/ dbProducts' # dbProducts =>
        /\ adminRequest.token = "s3cret"
        /\ adminRequest.outcome = "next"]_vars

(*************************************************************************)
(* The storefront and the cart store (useCartStore)                      *)
(*************************************************************************)
HexDigits == <<"0","1","2","3","4","5","6","7","8","9","a","b","c","d","e","f">>
\* _id.toString() of the products document with key k: the 24 hex digits
\* of its ObjectId
ObjectIdString(k) ==
    <<"6","5","f","0">> \o [i \in 1..18 |-> "0"]
        \o <<HexDigits[((k \div 16) % 16) + 1], HexDigits[(k % 16) + 1]>>

\* getLiveStoreProducts: find({}).toArray(), in insertion order, each
\* document with its `id` replaced by _id.toString()
getLiveStoreProducts ==
    LET keys == DOMAIN dbProducts
        n == Cardinality(keys)
        place(k) == 1 + Cardinality({j \in keys : j < k})
        found == [i \in 1..n |-> CHOOSE k \in keys : place(k) = i]
    IN  [i \in 1..n |->
            [id |-> ObjectIdString(found[i]), name |-> dbProducts[found[i]].name,
             price |-> dbProducts[found[i]].price]]

\* What the cart store leaves alone
notCart ==
    <<step, username, usernameError, edition, payVars, intakeVars, now,
      reviewVars, catalogVars, adminVars, mongoVars, seeds>>

\* `${product.name} added to cart!`
AddedMessage(product) ==
    product.name \o <<" ","a","d","d","e","d"," ","t","o"," ","c","a","r","t","!">>

\* The updater of addToCart that puts a new line in front
AddedToCartInFront(list, product) ==
    IF \E i \in 1..Len(list) : list[i].id = product.id
    THEN [i \in 1..Len(list) |->
            IF list[i].id = product.id
            THEN [list[i] EXCEPT !.quantity = @ + 1]
            ELSE list[i]]
    ELSE <<[id |-> product.id, name |-> product.name, price |-> product.price,
            quantity |-> 1]>> \o list

\* The updater addToCart hands to set()
AddedToCart(list, product) ==
    IF \E i \in 1..Len(list) : list[i].id = product.id
    THEN [i \in 1..Len(list) |->
            IF list[i].id = product.id
            THEN [list[i] EXCEPT !.quantity = @ + 1]
            ELSE list[i]]
    ELSE Append(list, [id |-> product.id, name |-> product.name,
                       price |-> product.price, quantity |-> 1])

\* addToast that numbers a toast by its place in the list
addToastByPlace(message) ==
    /\ toastIdCounter' = toastIdCounter + 1
    /\ toasts' = Append(toasts, [id |-> Len(toasts) + 1, message |-> message])
    /\ timers' = timers \cup {Len(toasts) + 1}

\* addToast: the toast gets the next id and a timer of 2.5 seconds
addToast(message) ==
    /\ toastIdCounter' = toastIdCounter + 1
    /\ toasts' = Append(toasts, [id |-> toastIdCounter + 1, message |-> message])
    /\ timers' = timers \cup {toastIdCounter + 1}

addToCart(product) ==
    /\ toastIdCounter < MaxToasts
    /\ items' = AddedToCart(items, product)
    /\ addToast(AddedMessage(product))
    /\ UNCHANGED notCart

removeFromCart(productId) ==
    /\ items' = SelectSeq(items, LAMBDA item : item.id # productId)
    /\ UNCHANGED <<storeVars, notCart>>

\* updateQuantity that removes the line for a negative quantity only
updateQuantityKeepsZero(productId, quantity) ==
    /\ items' =
         IF quantity < 0
         THEN SelectSeq(items, LAMBDA item : item.id # productId)
         ELSE [i \in 1..Len(items) |->
                 IF items[i].id = productId
                 THEN [items[i] EXCEPT !.quantity = quantity]
                 ELSE items[i]]
    /\ UNCHANGED <<storeVars, notCart>>

updateQuantity(productId, quantity) ==
    /\ items' =
         IF quantity <= 0
         THEN SelectSeq(items, LAMBDA item : item.id # productId)
         ELSE [i \in 1..Len(items) |->
                 IF items[i].id = productId
                 THEN [items[i] EXCEPT !.quantity = quantity]
                 ELSE items[i]]
    /\ UNCHANGED <<storeVars, notCart>>

clearCart ==
    /\ items' = <<>>
    /\ UNCHANGED <<storeVars, notCart>>

\* removeToast(id), called by anyone who holds the store
removeToast(id) ==
    /\ toasts' = SelectSeq(toasts, LAMBDA t : t.id # id)
    /\ UNCHANGED <<items, toastIdCounter, timers, notCart>>

\* The timer of toast id fires: () => get().removeToast(id)
timerFires(id) ==
    /\ id \in timers
    /\ timers' = timers \ {id}
    /\ toasts' = SelectSeq(toasts, LAMBDA t : t.id # id)
    /\ UNCHANGED <<items, toastIdCounter, notCart>>

RECURSIVE SumQuantities(_)
SumQuantities(list) ==
    IF list = <<>> THEN 0 ELSE Head(list).quantity + SumQuantities(Tail(list))
\* getItemCount
getItemCount == SumQuantities(items)

\* The products collection after the seed has run once
SeededProducts == [k \in 1..Len(products) |-> products[k]]

\* The storefront shows the seeded catalog; the cart is empty
CartInit ==
    /\ PayInit
    /\ AdminInit
    /\ RestInit
    /\ pc = "idle"
    /\ body = NoBody
    /\ order = NoOrder
    /\ resp = NoResponse
    /\ mail = "none"
    /\ served = 0
    /\ now = 0
    /\ dbOrders = [k \in OrderKeys |-> InitialOrder(k)]
    /\ ret = NoReturn
    /\ dbProducts = SeededProducts
    /\ nextKey = Len(products) + 1
    /\ step = "cart"
    /\ username = <<>>
    /\ usernameError = ""
    /\ edition = "java"
    /\ items = <<>>

\* The product cards a shopper clicks on, and the ids they carry
Cards == {getLiveStoreProducts[i] : i \in 1..MaxListed}
CardIds == {card.id : card \in Cards}

\* The cart of the store: products are added, lines are changed and removed
CartNext ==
    \/ \E product \in Cards : addToCart(product)
    \/ \E productId \in CardIds : removeFromCart(productId)
    \/ \E productId \in CardIds, quantity \in (-1)..MaxQuantity :
          updateQuantity(productId, quantity)
    \/ clearCart

CartSpec == CartInit /\ [][CartNext]_vars

\* The toasts of the store: products are added, toasts are removed by hand
\* and by their timers
ToastNext ==
    \/ \E product \in Cards : addToCart(product)
    \/ clearCart
    \/ \E id \in 1..MaxToasts : removeToast(id)
    \/ \E id \in 1..MaxToasts : timerFires(id)

ToastSpec == CartInit /\ [][ToastNext]_vars

\* A timer that was set fires
FairToastSpec == ToastSpec /\ \A id \in 1..MaxToasts : WF_vars(timerFires(id))

\* C21: addToCart(product) adds 1 to the quantity of the line with
\* product.id when there is one and adds no line, else appends one line of
\* quantity 1 at the end; the other lines and the order of the lines stay,
\* and exactly one toast naming the product is emitted.
C21_AddToCart ==
    [][toastIdCounter' # toastIdCounter =>
        \E product \in Cards :
            LET hits == {i \in 1..Len(items) : items[i].id = product.id}
            IN  /\ Len(toasts') = Len(toasts) + 1
                /\ toasts'[Len(toasts')].message = AddedMessage(product)
                /\ \A i \in 1..Len(toasts) : toasts'[i] = toasts[i]
                /\ hits # {} =>
                    /\ Len(items') = Len(items)
                    /\ \A i \in hits :
                        /\ items'[i].quantity = items[i].quantity + 1
                        /\ items'[i].id = items[i].id
                    /\ \A i \in (1..Len(items)) \ hits : items'[i] = items[i]
                /\ hits = {} =>
                    /\ Len(items') = Len(items) + 1
                    /\ items'[Len(items')].id = product.id
                    /\ items'[Len(items')].quantity = 1
                    /\ \A i \in 1..Len(items) : items'[i] = items[i]]_vars

\* The second product was appended behind the first, and then the first
\* was added once more
C21_Witness ==
    /\ Len(items) = MaxListed
    /\ items[1].quantity = 2
    /\ items[2].quantity = 1
    /\ Len(toasts) = 3

\* C26: after any sequence of addToCart, updateQuantity, removeFromCart and
\* clearCart every product id is in at most one line of the cart and every
\* quantity is an integer >= 1; getItemCount is 0 exactly when the cart is
\* empty; updateQuantity removes the line when qty <= 0, sets the quantity
\* of that line alone when qty >= 1, and changes nothing for an id that is
\* not in the cart.
C26_CartLinesWellFormed ==
    /\ [](/\ \A i, j \in 1..Len(items) : i # j => items[i].id # items[j].id
          /\ \A i \in 1..Len(items) : items[i].quantity \in Nat \ {0}
          /\ getItemCount = 0 <=> items = <<>>)
    /\ [][items' # items =>
           \A productId \in CardIds, quantity \in (-1)..MaxQuantity :
            updateQuantity(productId, quantity) =>
                LET hits == {i \in 1..Len(items) : items[i].id = productId}
                IN  /\ hits = {} => items' = items
                    /\ hits # {} /\ quantity <= 0 =>
                        LET h == CHOOSE i \in hits : TRUE
                        IN  items' = [i \in 1..(Len(items) - 1) |->
                                         IF i < h THEN items[i] ELSE items[i + 1]]
                    /\ hits # {} /\ quantity >= 1 =>
                        /\ Len(items') = Len(items)
                        /\ \A i \in hits : items'[i].quantity = quantity
                                           /\ items'[i].id = productId
                        /\ \A i \in (1..Len(items)) \ hits : items'[i] = items[i]]_vars

\* Two products were added once each, and updateQuantity set the quantity
\* of the first
C26_Witness ==
    /\ toastIdCounter = 2
    /\ Len(items) = 2
    /\ items[1].quantity = MaxQuantity
    /\ items[2].quantity = 1

\* C23: every toast addToCart creates is removed when its timer fires;
\* toast ids are pairwise distinct, so removing a toast by id removes no
\* other toast, and removing an id that is not in the list changes nothing.
ToastIds == {toasts[i].id : i \in 1..Len(toasts)}

C23_ToastsExpire ==
    /\ [](\A i, j \in 1..Len(toasts) : i # j => toasts[i].id # toasts[j].id)
    /\ [][\A id \in 1..MaxToasts :
            removeToast(id) \/ timerFires(id) =>
                /\ id \notin ToastIds => toasts' = toasts
                /\ Len(toasts') >= Len(toasts) - 1
                /\ \A i \in 1..Len(toasts) :
                    toasts[i].id # id => \E j \in 1..Len(toasts') : toasts'[j] = toasts[i]
                /\ \A j \in 1..Len(toasts') : toasts'[j].id # id]_vars
    /\ \A id \in 1..MaxToasts : (id \in ToastIds) ~> (id \notin ToastIds)

\* The timer of the first toast has fired and the second toast is still shown
C23_Witness ==
    /\ toastIdCounter = 2
    /\ timers = {2}
    /\ ToastIds = {2}

(*************************************************************************)
(* CartSidebar: the checkout flow as a whole                             *)
(*************************************************************************)
\* C22: the checkout flow empties the cart exactly when a place-order
\* response reports success; after a failure response or a network error
\* the lines and quantities of the cart are as they were, so a retry
\* submits the same items.
C22_CartClearedOnSuccessOnly ==
    /\ [][isProcessing /\ ~isProcessing' =>
            \/ /\ step' = "success"
               /\ CheckoutError(fetchBody) = NoError
               /\ items' = <<>>
            \/ /\ step' = "error"
               /\ items' = items]_vars
    /\ [][items' # items => isProcessing /\ ~isProcessing' /\ step' = "success"]_vars
    /\ [][~isProcessing /\ isProcessing' /\ fetchBody.parses =>
            fetchBody'.items = fetchBody.items]_vars

\* A request was answered with success and the cart is empty
C22_Witness ==
    /\ step = "success"
    /\ items = <<>>
    /\ username = Steve_123
    /\ fetchBody.minecraftUsername = Steve_123
    /\ orderResult.total = 999

\* The three checks of the username step
PassedValidation(raw) ==
    /\ Len(Trim(raw)) \in UsernameMinLen..UsernameMaxLen
    /\ \A i \in 1..Len(Trim(raw)) : Trim(raw)[i] \in WordChars \cup {" "}

\* C24: the username step is entered only from the cart step with a
\* non-empty cart, the payment step only from the username step with a
\* username that passed validation or from the error step, a checkout
\* request is sent only from the payment step, and the success step is
\* entered only on a response with HTTP ok and success = true.
C24_StepOrder ==
    [][/\ step # "username" /\ step' = "username" => step = "cart" /\ items # <<>>
       /\ step # "payment" /\ step' = "payment" =>
            \/ step = "username" /\ PassedValidation(username)
            \/ step = "error"
       /\ ~isProcessing /\ isProcessing' => step = "payment"
       /\ step # "success" /\ step' = "success" =>
            isProcessing /\ ~isProcessing' /\ CheckoutError(fetchBody) = NoError]_vars

\* C24 as amended: the username step is entered from the cart step with a
\* non-empty cart or from the payment step by the back arrow.
C24_StepOrderWithBack ==
    [][/\ step # "username" /\ step' = "username" =>
            \/ step = "cart" /\ items # <<>>
            \/ step = "payment"
       /\ step # "payment" /\ step' = "payment" =>
            \/ step = "username" /\ PassedValidation(username)
            \/ step = "error"
       /\ ~isProcessing /\ isProcessing' => step = "payment"
       /\ step # "success" /\ step' = "success" =>
            isProcessing /\ ~isProcessing' /\ CheckoutError(fetchBody) = NoError]_vars

\* The shopper typed a UTR at the payment step and went back
C24_Witness ==
    /\ step = "username"
    /\ utrNumber = Utr12
    /\ ~isProcessing

\* C30: a checkout response that arrives after the shopper has left the
\* payment step neither moves the sidebar to the success or error step nor
\* clears the cart: the step becomes success or error from the payment step
\* only, and after resetAndClose it stays cart until the shopper acts.
C30_LateResponseIgnored ==
    [][/\ step' # step /\ step' \in {"success", "error"} => step = "payment"
       /\ isProcessing /\ ~isProcessing' /\ step # "payment" =>
            step' = step /\ items' = items]_vars

(*************************************************************************)
(* More about order review                                               *)
(*************************************************************************)
\* C27: approveOrder and rejectOrder return { success: true } only when an
\* order with the identifier exists and has the requested status now; for
\* an identifier of no order they report a failure and change no order.
C27_SuccessMeansUpdated ==
    /\ [](ret.op # "" =>
            /\ ret.success =>
                /\ ret.orderId \in DOMAIN dbOrders
                /\ dbOrders[ret.orderId].status = StatusOf(ret.op)
            /\ ret.orderId \notin DOMAIN dbOrders => ~ret.success /\ ret.error # "")
    /\ [][ret'.orderId \notin DOMAIN dbOrders => dbOrders' = dbOrders]_vars

(*************************************************************************)
(* lib/mongodb: connectToDatabase, await by await.  The n-th call of     *)
(* MongoClient.connect returns promise n, which resolves to client n or  *)
(* rejects.  cached.client and cached.promise hold such an n (0: null).  *)
(*************************************************************************)
\* What connectToDatabase leaves alone
notMongo ==
    <<intakeVars, now, reviewVars, catalogVars, sidebarVars, payVars, adminVars,
      storeVars>>

\* A connectToDatabase invocation that has reached its await or returned
DbCall(at, promise, db) == [at |-> at, promise |-> promise, db |-> db]

\* connectToDatabase that tests cached.client only and connects otherwise
connectToDatabaseNoPromiseTest ==
    /\ Len(dbCalls) < MaxDbCalls
    /\ IF cached.client # 0
       THEN /\ dbCalls' = Append(dbCalls, DbCall("returned", 0, cached.client))
            /\ UNCHANGED <<cached, connections>>
       ELSE /\ connections' = Append(connections, "pending")
            /\ cached' = [cached EXCEPT !.promise = Len(connections) + 1]
            /\ dbCalls' = Append(dbCalls, DbCall("awaiting", Len(connections) + 1, 0))

\* connectToDatabase from its call to `await cached.promise`, or to its
\* return when a client is cached
connectToDatabase ==
    /\ Len(dbCalls) < MaxDbCalls
    /\ IF cached.client # 0
       THEN /\ dbCalls' = Append(dbCalls, DbCall("returned", 0, cached.client))
            /\ UNCHANGED <<cached, connections>>
       ELSE IF cached.promise = 0
       THEN /\ connections' = Append(connections, "pending")
            /\ cached' = [cached EXCEPT !.promise = Len(connections) + 1]
            /\ dbCalls' = Append(dbCalls, DbCall("awaiting", Len(connections) + 1, 0))
       ELSE /\ dbCalls' = Append(dbCalls, DbCall("awaiting", cached.promise, 0))
            /\ UNCHANGED <<cached, connections>>

\* A caller other than the seed route calls connectToDatabase
connectToDatabaseCalled ==
    /\ connectToDatabase
    /\ UNCHANGED <<seeds, notMongo>>

\* MongoClient.connect number n resolves or rejects
connectSettles(n, outcome) ==
    /\ n \in 1..Len(connections)
    /\ connections[n] = "pending"
    /\ connections' = [connections EXCEPT ![n] = outcome]
    /\ UNCHANGED <<cached, dbCalls, seeds, notMongo>>

\* Invocation i goes on after its await: cached.client = <the client>, return
\* cached.client.db(); or the await throws
awaitResumes(i) ==
    /\ i \in 1..Len(dbCalls)
    /\ dbCalls[i].at = "awaiting"
    /\ connections[dbCalls[i].promise] # "pending"
    /\ IF connections[dbCalls[i].promise] = "resolved"
       THEN /\ cached' = [cached EXCEPT !.client = dbCalls[i].promise]
            /\ dbCalls' = [dbCalls EXCEPT ![i].at = "returned",
                                          ![i].db = dbCalls[i].promise]
       ELSE /\ dbCalls' = [dbCalls EXCEPT ![i].at = "threw"]
            /\ UNCHANGED cached
    /\ UNCHANGED <<connections, seeds, notMongo>>

(*************************************************************************)
(* POST /api/admin/seed, await by await                                  *)
(*************************************************************************)
\* A seed invocation: `call` is its connectToDatabase invocation
SeedCall(call) ==
    [at |-> "connecting", call |-> call, existingCount |-> 0, seeded |-> FALSE,
     status |-> 0]

\* The handler up to `await connectToDatabase()`
seedCalled ==
    /\ Len(seeds) < MaxSeeds
    /\ connectToDatabase
    /\ seeds' = Append(seeds, SeedCall(Len(dbCalls) + 1))
    /\ UNCHANGED notMongo

\* connectToDatabase threw: the catch answers 500
seedFails(j) ==
    /\ j \in 1..Len(seeds)
    /\ seeds[j].at = "connecting"
    /\ dbCalls[seeds[j].call].at = "threw"
    /\ seeds' = [seeds EXCEPT ![j].at = "returned", ![j].status = 500]
    /\ UNCHANGED <<mongoVars, notMongo>>

\* await collection.countDocuments(): the handler returns seeded: false
\* when products exist, else goes on to insertMany
seedCounts(j) ==
    /\ j \in 1..Len(seeds)
    /\ seeds[j].at = "connecting"
    /\ dbCalls[seeds[j].call].at = "returned"
    /\ LET existingCount == Cardinality(DOMAIN dbProducts)
       IN  seeds' = IF existingCount > 0
                    THEN [seeds EXCEPT ![j].at = "returned", ![j].status = 200,
                                       ![j].existingCount = existingCount]
                    ELSE [seeds EXCEPT ![j].at = "inserting"]
    /\ UNCHANGED <<mongoVars, notMongo>>

\* await collection.insertMany(productsWithDates), and the answer seeded: true
seedInserts(j) ==
    /\ j \in 1..Len(seeds)
    /\ seeds[j].at = "inserting"
    /\ dbProducts' = dbProducts @@
            [k \in nextKey..(nextKey + Len(products) - 1) |-> products[k - nextKey + 1]]
    /\ nextKey' = nextKey + Len(products)
    /\ seeds' = [seeds EXCEPT ![j].at = "returned", ![j].status = 200,
                              ![j].seeded = TRUE]
    /\ UNCHANGED <<mongoVars, intakeVars, now, reviewVars, sidebarVars, payVars,
                   adminVars, storeVars>>

SeedNext ==
    \/ seedCalled
    \/ connectToDatabaseCalled
    \/ \E n \in 1..MaxDbCalls, outcome \in {"resolved", "rejected"} :
          connectSettles(n, outcome)
    \/ \E i \in 1..MaxDbCalls : awaitResumes(i)
    \/ \E j \in 1..MaxSeeds : seedFails(j)
    \/ \E j \in 1..MaxSeeds : seedCounts(j)
    \/ \E j \in 1..MaxSeeds : seedInserts(j)

SeedSpec == Init /\ [][SeedNext]_vars

\* C28: across every interleaving of connectToDatabase calls,
\* MongoClient.connect is not invoked while a connection attempt is pending
\* or has succeeded, and every call that returns yields a Db of the one
\* cached client.
C28_OneConnection ==
    /\ [][Len(connections') > Len(connections) =>
            \A n \in 1..Len(connections) : connections[n] = "rejected"]_vars
    /\ [](\A i \in 1..Len(dbCalls) :
            dbCalls[i].at = "returned" =>
                /\ dbCalls[i].db = cached.client
                /\ dbCalls[i].db # 0
                /\ \A j \in 1..Len(dbCalls) :
                    dbCalls[j].at = "returned" => dbCalls[j].db = dbCalls[i].db)

\* Three calls, two of them made while the connection attempt was pending,
\* have returned
C28_Witness ==
    /\ Len(dbCalls) = 3
    /\ dbCalls[1].at = "returned"
    /\ dbCalls[2].at = "returned" /\ dbCalls[2].promise = 1
    /\ dbCalls[3].at = "returned"
    /\ Len(connections) = 1

\* C25: the seed endpoint inserts the hardcoded products only when the
\* products collection is empty: from an empty collection, after any number
\* of seed calls, overlapping ones included, each hardcoded product is there
\* exactly once; a seed call on a non-empty collection inserts nothing and
\* reports seeded = false.
C25_SeedsOnce ==
    /\ [](\A i \in 1..Len(products) :
            LET copies == {k \in DOMAIN dbProducts : dbProducts[k].id = products[i].id}
            IN  /\ Cardinality(copies) <= 1
                /\ (\E j \in 1..Len(seeds) : seeds[j].seeded) => Cardinality(copies) = 1)
    /\ [][DOMAIN dbProducts # {} => dbProducts' = dbProducts]_vars
    /\ [][\A j \in 1..Len(seeds) :
            seeds[j].at = "connecting" /\ seeds'[j].at # "connecting"
            /\ DOMAIN dbProducts # {} /\ seeds'[j].status = 200 =>
                seeds'[j].at = "returned" /\ ~seeds'[j].seeded]_vars

(*************************************************************************)
(* From the storefront to intake: a shopper adds listed products to the  *)
(* cart and goes through the checkout steps                              *)
(*************************************************************************)
StoreNext ==
    \/ \E product \in Cards : addToCart(product)
    \/ goToUsername
    \/ \E v \in {Steve_123} : setUsername(v)
    \/ goToPayment
    \/ \E v \in TypedUtrs : setUtrNumber(v)
    \/ handlePlaceOrder
    \/ fetchResolves
    \/ fetchRejects
    \/ retryPayment
    \/ resetAndClose

StoreSpec == CartInit /\ [][StoreNext]_vars

\* C29: every product the storefront lists and lets a shopper add to the
\* cart carries an id the catalog lookup of intake resolves: a checkout
\* from the sidebar with a valid username and a 12-digit UTR, for a cart
\* built from listed products, is never rejected with 'Product not found'.
C29_ListedProductsCanBeOrdered ==
    /\ \A i \in 1..Len(items) :
        \E j \in 1..Len(products) : products[j].id = items[i].id
    /\ step = "error" =>
        \A i \in 1..Len(fetchBody.items) :
            orderResult.error # ProductNotFound(fetchBody.items[i].id)

=============================================================================
